---- MODULE Spec2Model ----
(***************************************************************************)
(* Direction reconstruction of the SAPPHiRE ESD reconstructors,            *)
(* sapphire/analysis/reconstructions.py: ReconstructESDEvents (one         *)
(* station) and ReconstructESDCoincidences (several stations).  A          *)
(* behaviour follows one destination group of a PyTables file through any  *)
(* number of reconstruct_and_store() calls, one method per step.           *)
(***************************************************************************)
EXTENDS Integers, Sequences, FiniteSets, TLC

VARIABLES
    mode,           \* "events" | "coincidences": the class this behaviour runs
    pc,             \* next method of reconstruct_and_store, or new/idle/done/raised
    err,            \* exception class that ended the call ("" when none)
    raisedIn,       \* method the exception left from
    overwrite,      \* self.overwrite
    events,         \* station_group.events (input table)
    reconstructions,\* node 'reconstructions' of the destination group
    detector_offsets,\* node 'detector_offsets' of the station group
    offsets,        \* self.offsets
    angles,         \* zip(self.theta, self.phi, self.detector_ids / station_numbers)
    solverCalls,    \* calls made to self.direct / self.fit during this call
    fits,           \* curve_fit results and dt of this call's detector calibration
    before,         \* destination nodes and ranOnce when the call was entered
    ranOnce,        \* a reconstruct_and_store call on this destination returned
    cluster,        \* station numbers of self.cluster, ascending
    s_index,        \* station numbers of coincidences_group.s_index
    coincidences,   \* coincidences_group.coincidences (input table)
    station_fits,   \* this call's station calibration: fits and detector_offsets
    columns         \* ReconstructedCoincidence.columns: the s<number> keys

vars == <<mode, pc, err, raisedIn, overwrite, events, reconstructions,
          detector_offsets, offsets, angles, solverCalls, fits, before,
          ranOnce, cluster, s_index, coincidences, station_fits, columns>>

eventVars == <<events, detector_offsets>>
coincVars == <<cluster, s_index, coincidences, station_fits, columns>>

-----------------------------------------------------------------------------
(* Bounds of the input tables *)

MaxEvents == 2

MaxCoincidences == 1

-----------------------------------------------------------------------------
(* Values *)

NaN == "nan"

isnan(x) == x = NaN

SetMin(S) == CHOOSE m \in S : \A x \in S : m <= x

Range(s) == {s[i] : i \in 1..Len(s)}

RECURSIVE Concat(_)
Concat(ss) == IF ss = <<>> THEN <<>> ELSE Head(ss) \o Concat(Tail(ss))

\* Timings that are "no measurement"
Sentinels == {-1, -999}


-----------------------------------------------------------------------------
(* Input: the events table of one station *)

\* Kinds of event rows: four detector timings t1..t4, particle counts n1..n4
\* and what the direction solver does with the event (sol).
EventPool ==
    { [t |-> <<7, 5, 4, 5>>,             n |-> <<2, 1, 3, 1>>, sol |-> "ok"],
      [t |-> <<7, 5, 4, 5>>,             n |-> <<2, 1, 3, 1>>, sol |-> "raise"],
      [t |-> <<7, -999, 4, 5>>,          n |-> <<2, 1, 3, 1>>, sol |-> "ok"],
      [t |-> <<-1, 5, 4, 5>>,            n |-> <<2, 1, 3, 1>>, sol |-> "nan"],
      [t |-> <<7, 5, -999, 5>>,          n |-> <<2, 1, 3, 1>>, sol |-> "nanphi"],
      [t |-> <<7, 5, -999, -1>>,         n |-> <<2, 1, 3, 1>>, sol |-> "ok"],
      [t |-> <<-999, -999, -999, -999>>, n |-> <<2, 1, 3, 1>>, sol |-> "ok"],
      [t |-> <<-2, 5, 4, -999>>,         n |-> <<2, 1, 3, 1>>, sol |-> "ok"] }

\* A table of the pool's rows: event_id is the row number, from 0.
EventTable(kinds) ==
    [i \in 1..Len(kinds) |->
        [event_id |-> i - 1, ext_timestamp |-> 100 + i,
         t |-> kinds[i].t, n |-> kinds[i].n, sol |-> kinds[i].sol]]

EventTables ==
    UNION { {EventTable(k) : k \in [1..len -> EventPool]} : len \in 0..MaxEvents }

\* Nodes a destination group can hold before the first call.
NoNode == [exists |-> FALSE, rows |-> <<>>, s_columns |-> {}]

StaleTable == [exists |-> TRUE, rows |-> <<"stale">>, s_columns |-> {}]

StaleOffsets == [exists |-> TRUE, rows |-> <<9, 0, 9, 9>>, s_columns |-> {}]

-----------------------------------------------------------------------------
(* Direction solvers: sapphire.analysis.direction_reconstruction *)

\* DirectEventReconstruction.reconstruct_event / FitEventReconstruction
\* .reconstruct_event and their coincidence counterparts: a pair of angles,
\* either of which may be NaN, or a raised error.
Solve(record) ==
    CASE record.sol = "ok"     -> [raised |-> FALSE, theta |-> "0.35", phi |-> "1.20"]
      [] record.sol = "nan"    -> [raised |-> FALSE, theta |-> NaN, phi |-> NaN]
      [] record.sol = "nanphi" -> [raised |-> FALSE, theta |-> "0.35", phi |-> NaN]
      [] record.sol = "raise"  -> [raised |-> TRUE, theta |-> NaN, phi |-> NaN]

-----------------------------------------------------------------------------
(* ReconstructESDEvents *)

\* event['t%d' % (id + 1)] not in [-1, -999]
ValidTiming(t) == t \notin Sentinels

\* [id for id in range(4) if event['t%d' % (id + 1)] not in [-1, -999]]
DetectorIds(event) ==
    SelectSeq(<<0, 1, 2, 3>>, LAMBDA id : ValidTiming(event.t[id + 1]))

\* _reconstruct_direction sending three or more timings to the direct solver
Events_reconstruct_direction_three_or_more(event, offs) ==
    LET detector_ids == DetectorIds(event)
        call(solver, args) == [solver |-> solver, id |-> event.event_id,
                               ids |-> args, offsets |-> offs]
        out(r, calls) == [raised |-> r.raised, theta |-> r.theta, phi |-> r.phi,
                          ids |-> detector_ids, calls |-> calls]
    IN  IF Len(detector_ids) >= 3
        THEN out(Solve(event), <<call("direct", detector_ids)>>)
        ELSE out([raised |-> FALSE, theta |-> NaN, phi |-> NaN], <<>>)

\* ReconstructESDEvents._reconstruct_direction
Events_reconstruct_direction(event, offs) ==
    LET detector_ids == DetectorIds(event)
        call(solver, args) == [solver |-> solver, id |-> event.event_id,
                               ids |-> args, offsets |-> offs]
        out(r, calls) == [raised |-> r.raised, theta |-> r.theta, phi |-> r.phi,
                          ids |-> detector_ids, calls |-> calls]
    IN  IF Len(detector_ids) = 3
        THEN out(Solve(event), <<call("direct", detector_ids)>>)
        ELSE IF Len(detector_ids) = 4
        THEN out(Solve(event), <<call("fit", <<>>)>>)
        ELSE out([raised |-> FALSE, theta |-> NaN, phi |-> NaN], <<>>)

\* (t2 >= 0) & (timings >= 0)
CalibrationValid(t2, timing) == t2 >= 0 /\ timing >= 0

\* dt = (timings - t2).compress((t2 >= 0) & (timings >= 0)) for column det
DetectorDt(table, det) ==
    LET keep == SelectSeq([i \in 1..Len(table) |-> i],
                          LAMBDA i : CalibrationValid(table[i].t[2], table[i].t[det]))
    IN  [k \in 1..Len(keep) |-> table[keep[k]].t[det] - table[keep[k]].t[2]]

\* histogram(dt, bins=arange(-100 + 1.25, 100, 2.5)): the samples inside the
\* outer bin edges -98.75 and 98.75.
DetectorHistogram(dt) == SelectSeq(dt, LAMBDA d : 4 * d >= -395 /\ 4 * d <= 395)

\* curve_fit(gauss, x, y, p0=(len(dt), 0., 10.)): RuntimeError, or a fitted
\* mean.  On an all-zero histogram the start value 0. is the mean; otherwise
\* the mean lies among the samples.
CurveFit(samples) ==
    {[ok |-> FALSE, mean |-> 0]} \cup
    {[ok |-> TRUE, mean |-> m] :
        m \in IF samples = <<>> THEN {0} ELSE Range(samples)}

\* popt[1], or 0. after RuntimeError
FittedOffset(fit) == IF fit.ok THEN fit.mean ELSE 0

\* the reference entry put first: [0.] + offsets
AssembleOffsets_reference_first(o) == <<0>> \o o

\* offsets[0:1] + [0.] + offsets[1:]
AssembleOffsets(o) == SubSeq(o, 1, 1) \o <<0>> \o SubSeq(o, 2, Len(o))

\* One curve_fit result per distinct histogram: the fit is a function of its
\* data.
FitOracles(histograms) ==
    {f \in [histograms -> UNION {CurveFit(h) : h \in histograms}] :
        \A h \in histograms : f[h] \in CurveFit(h)}

\* determine_detector_timing_offsets of either class, given the oracle
DetectorFits(table, oracle) ==
    [k \in 1..3 |->
        LET dt == DetectorDt(table, <<1, 3, 4>>[k])
            fit == oracle[DetectorHistogram(dt)]
        IN  [ok |-> fit.ok, mean |-> fit.mean, dt |-> dt]]

DetectorHistograms(table) ==
    {DetectorHistogram(DetectorDt(table, det)) : det \in {1, 3, 4}}

\* prepare_output that reuses an existing table instead of removing it
PrepareOutput_keeps_table(node, ow) ==
    IF node.exists /\ ~ow
    THEN [raised |-> TRUE, node |-> node]
    ELSE [raised |-> FALSE,
          node |-> [exists |-> TRUE, rows |-> node.rows, s_columns |-> {}]]

\* prepare_output of either class: the 'reconstructions' node afterwards, or
\* the RuntimeError.
PrepareOutput(node, ow) ==
    IF node.exists /\ ~ow
    THEN [raised |-> TRUE, node |-> node]
    ELSE [raised |-> FALSE,
          node |-> [exists |-> TRUE, rows |-> <<>>, s_columns |-> {}]]

\* store_offsets: the 'detector_offsets' node afterwards, or the RuntimeError.
StoreOffsets(node, ow, offs) ==
    IF node.exists /\ ~ow
    THEN [raised |-> TRUE, node |-> node]
    ELSE [raised |-> FALSE,
          node |-> [exists |-> TRUE, rows |-> offs, s_columns |-> {}]]

\* the filter with "or" in place of "and"
Storable_either(a) == ~isnan(a.theta) \/ ~isnan(a.phi)

\* not isnan(theta) and not isnan(phi)
Storable(a) == ~isnan(a.theta) /\ ~isnan(a.phi)

\* ReconstructESDEvents._store_reconstruction
Events_store_reconstruction(event, a) ==
    [id |-> event.event_id, ext_timestamp |-> event.ext_timestamp,
     min_n |-> SetMin({event.n[id + 1] : id \in Range(a.ids)}),
     zenith |-> a.theta, azimuth |-> a.phi,
     d |-> [k \in 1..4 |-> (k - 1) \in Range(a.ids)]]

\* positions store_reconstructions stores: izip stops at the shorter input
StoredPositions(table, as) ==
    LET n == IF Len(table) < Len(as) THEN Len(table) ELSE Len(as)
    IN  SelectSeq([i \in 1..n |-> i], LAMBDA i : Storable(as[i]))

\* rows appended by ReconstructESDEvents.store_reconstructions
Events_StoredRows(table, as) ==
    LET keep == StoredPositions(table, as)
    IN  [k \in 1..Len(keep) |->
            Events_store_reconstruction(table[keep[k]], as[keep[k]])]

Raise(class, method) ==
    /\ pc' = "raised"
    /\ err' = class
    /\ raisedIn' = method

\* ReconstructESDEvents.__init__
Events_init(ow) ==
    /\ mode = "events"
    /\ pc \in {"new", "done", "raised"}
    /\ pc' = "idle"
    /\ overwrite' = ow
    /\ offsets' = <<0, 0, 0, 0>>
    /\ angles' = <<>>
    /\ solverCalls' = <<>>
    /\ fits' = <<>>
    /\ err' = ""
    /\ raisedIn' = ""
    /\ UNCHANGED <<mode, reconstructions, before, ranOnce, eventVars, coincVars>>

\* ReconstructESDEvents.reconstruct_and_store, entry
Events_reconstruct_and_store ==
    /\ mode = "events"
    /\ pc \in {"idle", "done", "raised"}
    /\ pc' = "prepare_output"
    /\ err' = ""
    /\ raisedIn' = ""
    /\ before' = [reconstructions |-> reconstructions,
                  detector_offsets |-> detector_offsets,
                  ranOnce |-> ranOnce]
    /\ solverCalls' = <<>>
    /\ fits' = <<>>
    /\ UNCHANGED <<mode, overwrite, reconstructions, offsets, angles,
                   ranOnce, eventVars, coincVars>>

\* ReconstructESDEvents.prepare_output
Events_prepare_output ==
    /\ mode = "events"
    /\ pc = "prepare_output"
    /\ LET r == PrepareOutput(reconstructions, overwrite)
       IN  /\ reconstructions' = r.node
           /\ IF r.raised
              THEN Raise("RuntimeError", "prepare_output")
              ELSE /\ pc' = "determine_detector_timing_offsets"
                   /\ UNCHANGED <<err, raisedIn>>
    /\ UNCHANGED <<mode, overwrite, offsets, angles, solverCalls, fits, before,
                   ranOnce, eventVars, coincVars>>

\* ReconstructESDEvents.determine_detector_timing_offsets
Events_determine_detector_timing_offsets ==
    /\ mode = "events"
    /\ pc = "determine_detector_timing_offsets"
    /\ \E oracle \in FitOracles(DetectorHistograms(events)) :
          /\ fits' = DetectorFits(events, oracle)
          /\ offsets' = AssembleOffsets([k \in 1..3 |-> FittedOffset(fits'[k])])
    /\ pc' = "store_offsets"
    /\ UNCHANGED <<mode, err, raisedIn, overwrite, reconstructions, angles,
                   solverCalls, before, ranOnce, eventVars, coincVars>>

\* ReconstructESDEvents.store_offsets
Events_store_offsets ==
    /\ mode = "events"
    /\ pc = "store_offsets"
    /\ LET r == StoreOffsets(detector_offsets, overwrite, offsets)
       IN  /\ detector_offsets' = r.node
           /\ IF r.raised
              THEN Raise("RuntimeError", "store_offsets")
              ELSE /\ pc' = "reconstruct_directions"
                   /\ UNCHANGED <<err, raisedIn>>
    /\ UNCHANGED <<mode, overwrite, events, reconstructions, offsets, angles,
                   solverCalls, fits, before, ranOnce, coincVars>>

\* The list comprehension over the records and zip(*angles) of
\* reconstruct_directions: results[i] is _reconstruct_direction of record i.
ReconstructAll(results) ==
    LET raising == {i \in 1..Len(results) : results[i].raised}
        last == IF raising = {} THEN Len(results) ELSE SetMin(raising)
    IN  /\ solverCalls' = Concat([i \in 1..last |-> results[i].calls])
        /\ IF raising # {}
           THEN /\ Raise("SolveFailure", "reconstruct_directions")
                /\ UNCHANGED angles
           ELSE IF Len(results) = 0
           THEN /\ Raise("ValueError", "reconstruct_directions")
                /\ UNCHANGED angles
           ELSE /\ angles' = [i \in 1..Len(results) |->
                                [theta |-> results[i].theta,
                                 phi |-> results[i].phi,
                                 ids |-> results[i].ids]]
                /\ pc' = "store_reconstructions"
                /\ UNCHANGED <<err, raisedIn>>

\* ReconstructESDEvents.reconstruct_directions
Events_reconstruct_directions ==
    /\ mode = "events"
    /\ pc = "reconstruct_directions"
    /\ ReconstructAll([i \in 1..Len(events) |->
                          Events_reconstruct_direction(events[i], offsets)])
    /\ UNCHANGED <<mode, overwrite, reconstructions, offsets, fits, before,
                   ranOnce, eventVars, coincVars>>

\* ReconstructESDEvents.store_reconstructions
Events_store_reconstructions ==
    /\ mode = "events"
    /\ pc = "store_reconstructions"
    /\ reconstructions' =
          [reconstructions EXCEPT
              !.rows = @ \o Events_StoredRows(events, angles)]
    /\ pc' = "done"
    /\ ranOnce' = TRUE
    /\ UNCHANGED <<mode, err, raisedIn, overwrite, offsets, angles, solverCalls,
                   fits, before, eventVars, coincVars>>

-----------------------------------------------------------------------------
(* Input: a coincidences group *)

\* ref_station = 501
RefStation == 501

\* Station events of a coincidence: a two-detector station with both
\* detectors hit, triggered at the given time, and an event without any
\* valid detector timing.
HitEvent(trigger) ==
    [t |-> <<7, 5, -1, -1>>, ext_timestamp |-> 100, t_trigger |-> trigger]

EmptyEvent ==
    [t |-> <<-999, -999, -999, -999>>, ext_timestamp |-> 100, t_trigger |-> 3]

\* Kinds of coincidence: the (station number, event) pairs and what the
\* direction solver does with them (sol).
CoincidencePool ==
    { [events |-> <<<<501, HitEvent(3)>>, <<502, HitEvent(5)>>>>, sol |-> "ok"],
      [events |-> <<<<501, HitEvent(3)>>, <<502, EmptyEvent>>>>, sol |-> "ok"],
      [events |-> <<<<501, HitEvent(3)>>, <<502, HitEvent(5)>>,
                    <<503, HitEvent(4)>>>>, sol |-> "ok"],
      [events |-> <<<<501, HitEvent(3)>>, <<502, HitEvent(5)>>,
                    <<503, HitEvent(4)>>>>, sol |-> "raise"],
      [events |-> <<<<501, HitEvent(3)>>, <<501, HitEvent(3)>>,
                    <<502, HitEvent(5)>>>>, sol |-> "ok"],
      [events |-> <<<<501, HitEvent(3)>>, <<502, HitEvent(5)>>,
                    <<503, HitEvent(4)>>, <<504, HitEvent(3)>>>>,
       sol |-> "ok"] }

\* station numbers of a coincidence, one per station event
StationNumbers(coincidence) ==
    [k \in 1..Len(coincidence) |-> coincidence[k][1]]

\* [cluster attribute of the group, s_index]: the usual file, a cluster
\* without the reference station, a cluster station without a station group,
\* a file without the reference station's group, a station group outside the
\* cluster.
GroupPool ==
    { [cluster |-> <<501, 502, 503, 504>>, s_index |-> <<501, 502, 503, 504>>],
      [cluster |-> <<502, 503>>,           s_index |-> <<502, 503>>],
      [cluster |-> <<501, 502, 503>>,      s_index |-> <<501, 502>>],
      [cluster |-> <<501, 502>>,           s_index |-> <<502>>],
      [cluster |-> <<501, 502>>,           s_index |-> <<501, 502, 503>>] }

\* A coincidences table of the pool's kinds: id is the row number, from 0.
CoincidenceTable(kinds) ==
    [i \in 1..Len(kinds) |->
        [id |-> i - 1, ext_timestamp |-> 100 + i, reference |-> <<"x", "y">>,
         events |-> kinds[i].events, sol |-> kinds[i].sol]]

\* Tables whose coincidences are between stations of the s_index.
CoincidenceTables(index) ==
    LET kinds == {k \in CoincidencePool :
                    Range(StationNumbers(k.events)) \subseteq Range(index)}
    IN  UNION { {CoincidenceTable(k) : k \in [1..len -> kinds]} :
                len \in 0..MaxCoincidences }

\* data.get_node(s_path).events: the station's events, in table order
StationEvents(table, station) ==
    LET own(c) == SelectSeq(c.events, LAMBDA e : e[1] = station)
        rows == Concat([i \in 1..Len(table) |-> own(table[i])])
    IN  [k \in 1..Len(rows) |-> rows[k][2]]

-----------------------------------------------------------------------------
(* CoincidenceQuery: sapphire.analysis.coincidence_queries *)

\* CoincidenceQuery.all: the coincidences with all the stations
CQ_all(table, stations) ==
    SelectSeq(table,
              LAMBDA c : stations \subseteq Range(StationNumbers(c.events)))

\* CoincidenceQuery.events_from_stations
CQ_events_from_stations(cs, stations) ==
    [i \in 1..Len(cs) |->
        SelectSeq(cs[i].events, LAMBDA e : e[1] \in stations)]

\* HiSPARCStations.calc_rphiz_for_stations(...)[0]: stations on a line
Distance(a, b) == 10 * (IF a > b THEN a - b ELSE b - a)

-----------------------------------------------------------------------------
(* ReconstructESDCoincidences *)

\* ReconstructESDCoincidences._reconstruct_direction
Coinc_reconstruct_direction(row, offs) ==
    LET coincidence == row.events
        station_numbers == StationNumbers(coincidence)
        call(solver) == [solver |-> solver, id |-> row.id,
                         ids |-> station_numbers, offsets |-> offs]
        out(r, calls) == [raised |-> r.raised, theta |-> r.theta, phi |-> r.phi,
                          ids |-> station_numbers, calls |-> calls]
    IN  IF Len(coincidence) = 3
        THEN out(Solve(row), <<call("direct")>>)
        ELSE IF Len(coincidence) >= 4
        THEN out(Solve(row), <<call("fit")>>)
        ELSE out([raised |-> FALSE, theta |-> NaN, phi |-> NaN], <<>>)

\* ReconstructESDCoincidences.determine_detector_timing_offsets
Coinc_determine_detector_timing_offsets(station_events, oracle) ==
    AssembleOffsets([k \in 1..3 |->
                        FittedOffset(DetectorFits(station_events, oracle)[k])])

\* [event['t%d' % (i + 1)] - t_off[i] for i in range(4)
\*  if event['t%d' % (i + 1)] not in [-1, -999]]
CorrectedTimings(event, t_off) ==
    {event.t[i] - t_off[i] : i \in {j \in 1..4 : ValidTiming(event.t[j])}}

\* the events of stations [ref_station, station.number] per coincidence,
\* without those that are not one event of each
PairEvents(table, number) ==
    SelectSeq(CQ_events_from_stations(CQ_all(table, {RefStation, number}),
                                      {RefStation, number}),
              LAMBDA evs : Len(evs) = 2)

RefEvent(evs) == IF evs[1][1] = RefStation THEN evs[1][2] ELSE evs[2][2]

OtherEvent(evs) == IF evs[1][1] = RefStation THEN evs[2][2] ELSE evs[1][2]

\* min([]) raises ValueError
MinRaises(evs, ref_t_off, t_off) ==
    \/ CorrectedTimings(RefEvent(evs), ref_t_off) = {}
    \/ CorrectedTimings(OtherEvent(evs), t_off) = {}

\* one element of dt
StationDt(evs, ref_t_off, t_off) ==
    LET ref_event == RefEvent(evs)
        event == OtherEvent(evs)
    IN  event.ext_timestamp - ref_event.ext_timestamp
        + event.t_trigger - ref_event.t_trigger
        + SetMin(CorrectedTimings(event, t_off))
        - SetMin(CorrectedTimings(ref_event, ref_t_off))

\* dt of one station, up to the first coincidence where min raises
StationDts(table, number, ref_t_off, t_off) ==
    LET pairs == PairEvents(table, number)
        bad == {i \in 1..Len(pairs) : MinRaises(pairs[i], ref_t_off, t_off)}
    IN  [raised |-> bad # {},
         dt |-> IF bad # {} THEN <<>>
                ELSE [i \in 1..Len(pairs) |->
                        StationDt(pairs[i], ref_t_off, t_off)]]

\* histogram(dt, bins=linspace(-r, r, 50))
StationHistogram(dt, r) == SelectSeq(dt, LAMBDA d : d >= -r /\ d <= r)

\* detector_offsets after the loop over s_index
AllDetectorOffsets(table, index, oracle) ==
    [s \in Range(index) |->
        Coinc_determine_detector_timing_offsets(StationEvents(table, s), oracle)]

\* The loop over self.cluster.stations of determine_station_timing_offsets:
\* self.offsets and the station offsets fitted, and the error that ended it.
RECURSIVE StationLoop(_, _, _, _, _, _)
StationLoop(stations, table, index, detector_offs, offs, fitted) ==
    IF stations = <<>>
    THEN {[err |-> "", offsets |-> offs, fitted |-> fitted]}
    ELSE LET number == Head(stations)
         IN  IF number = RefStation
             THEN StationLoop(Tail(stations), table, index, detector_offs,
                              offs, fitted)
             ELSE IF number \notin Range(index)
             THEN {[err |-> "KeyError", offsets |-> offs, fitted |-> fitted]}
             ELSE LET t_off == detector_offs[number]
                      d == StationDts(table, number,
                                      detector_offs[RefStation], t_off)
                      r == Distance(number, RefStation)
                  IN  IF d.raised
                      THEN {[err |-> "ValueError", offsets |-> offs,
                             fitted |-> fitted]}
                      ELSE UNION {
                             StationLoop(Tail(stations), table, index,
                                 detector_offs,
                                 (number :> [i \in 1..4 |->
                                               t_off[i] + FittedOffset(fit)])
                                     @@ offs,
                                 (number :> fit) @@ fitted) :
                             fit \in CurveFit(StationHistogram(d.dt, r)) }

\* determine_station_timing_offsets, given the detector fits' oracle
StationTimingOffsets(stations, table, index, offs, oracle) ==
    LET detector_offs == AllDetectorOffsets(table, index, oracle)
        stop(e) == {[err |-> e, offsets |-> offs, fitted |-> <<>>,
                     detector_offsets |-> detector_offs]}
    IN  IF RefStation \notin Range(stations)
        THEN stop("AttributeError")
        ELSE IF RefStation \notin Range(index)
        THEN stop("KeyError")
        ELSE {[err |-> r.err, offsets |-> r.offsets, fitted |-> r.fitted,
               detector_offsets |-> detector_offs] :
                r \in StationLoop(stations, table, index, detector_offs,
                                  offs, <<>>)}

\* ReconstructESDCoincidences._store_reconstruction
Coinc_store_reconstruction(coincidence, a) ==
    [id |-> coincidence.id, ext_timestamp |-> coincidence.ext_timestamp,
     zenith |-> a.theta, azimuth |-> a.phi,
     reference |-> coincidence.reference,
     s |-> Range(a.ids)]

\* rows appended by ReconstructESDCoincidences.store_reconstructions
Coinc_StoredRows(table, as) ==
    LET keep == StoredPositions(table, as)
    IN  [k \in 1..Len(keep) |->
            Coinc_store_reconstruction(table[keep[k]], as[keep[k]])]

\* ReconstructESDCoincidences.__init__
Coinc_init(ow) ==
    /\ mode = "coincidences"
    /\ pc \in {"new", "done", "raised"}
    /\ pc' = "idle"
    /\ overwrite' = ow
    /\ offsets' = <<>>
    /\ angles' = <<>>
    /\ solverCalls' = <<>>
    /\ station_fits' = <<>>
    /\ err' = ""
    /\ raisedIn' = ""
    /\ UNCHANGED <<mode, reconstructions, fits, before, ranOnce, eventVars,
                   cluster, s_index, coincidences, columns>>

\* ReconstructESDCoincidences.reconstruct_and_store, entry
Coinc_reconstruct_and_store ==
    /\ mode = "coincidences"
    /\ pc \in {"idle", "done", "raised"}
    /\ pc' = "prepare_output"
    /\ err' = ""
    /\ raisedIn' = ""
    /\ before' = [reconstructions |-> reconstructions,
                  detector_offsets |-> detector_offsets,
                  ranOnce |-> ranOnce]
    /\ solverCalls' = <<>>
    /\ station_fits' = <<>>
    /\ UNCHANGED <<mode, overwrite, reconstructions, offsets, angles, fits,
                   ranOnce, eventVars, cluster, s_index, coincidences,
                   columns>>

\* ReconstructESDCoincidences.prepare_output
Coinc_prepare_output ==
    /\ mode = "coincidences"
    /\ pc = "prepare_output"
    /\ LET r == PrepareOutput(reconstructions, overwrite)
       IN  IF r.raised
           THEN /\ Raise("RuntimeError", "prepare_output")
                /\ UNCHANGED <<reconstructions, columns>>
           ELSE /\ columns' = columns \cup Range(cluster)
                /\ reconstructions' = [r.node EXCEPT !.s_columns = columns']
                /\ pc' = "determine_station_timing_offsets"
                /\ UNCHANGED <<err, raisedIn>>
    /\ UNCHANGED <<mode, overwrite, offsets, angles, solverCalls, fits, before,
                   ranOnce, eventVars, cluster, s_index, coincidences,
                   station_fits>>

\* ReconstructESDCoincidences.determine_station_timing_offsets
Coinc_determine_station_timing_offsets ==
    /\ mode = "coincidences"
    /\ pc = "determine_station_timing_offsets"
    /\ \E oracle \in FitOracles(UNION {
            DetectorHistograms(StationEvents(coincidences, s)) :
                s \in Range(s_index)}) :
          \E r \in StationTimingOffsets(cluster, coincidences, s_index,
                                        offsets, oracle) :
             /\ offsets' = r.offsets
             /\ station_fits' =
                   [detector_fits |->
                       [s \in Range(s_index) |->
                           DetectorFits(StationEvents(coincidences, s), oracle)],
                    detector_offsets |-> r.detector_offsets,
                    fitted |-> r.fitted]
             /\ IF r.err # ""
                THEN Raise(r.err, "determine_station_timing_offsets")
                ELSE /\ pc' = "reconstruct_directions"
                     /\ UNCHANGED <<err, raisedIn>>
    /\ UNCHANGED <<mode, overwrite, reconstructions, angles, solverCalls, fits,
                   before, ranOnce, eventVars, cluster, s_index, coincidences,
                   columns>>

\* ReconstructESDCoincidences.reconstruct_directions: the events of
\* cq.all_events(cq.all_coincidences()) are the rows' (station, event) pairs.
Coinc_reconstruct_directions ==
    /\ mode = "coincidences"
    /\ pc = "reconstruct_directions"
    /\ ReconstructAll([i \in 1..Len(coincidences) |->
                          Coinc_reconstruct_direction(coincidences[i], offsets)])
    /\ UNCHANGED <<mode, overwrite, reconstructions, offsets, fits, before,
                   ranOnce, eventVars, coincVars>>

\* ReconstructESDCoincidences.store_reconstructions: row['s%d' % number] of a
\* station without a column raises KeyError.
Coinc_store_reconstructions ==
    /\ mode = "coincidences"
    /\ pc = "store_reconstructions"
    /\ LET rows == Coinc_StoredRows(coincidences, angles)
           bad == {k \in 1..Len(rows) :
                      ~(rows[k].s \subseteq reconstructions.s_columns)}
       IN  IF bad = {}
           THEN /\ reconstructions' = [reconstructions EXCEPT !.rows = @ \o rows]
                /\ pc' = "done"
                /\ ranOnce' = TRUE
                /\ UNCHANGED <<err, raisedIn>>
           ELSE /\ reconstructions' =
                      [reconstructions EXCEPT
                          !.rows = @ \o SubSeq(rows, 1, SetMin(bad) - 1)]
                /\ Raise("KeyError", "store_reconstructions")
                /\ UNCHANGED ranOnce
    /\ UNCHANGED <<mode, overwrite, offsets, angles, solverCalls, fits, before,
                   eventVars, coincVars>>

\* Another coincidences group is opened in the same process, as in
\* tables.open_file(...) of the class docstring: the destination and the
\* input are that group's, no reconstructor exists for it yet, and the
\* class ReconstructedCoincidence is the one earlier calls have used.
Coinc_open ==
    /\ mode = "coincidences"
    /\ pc \in {"done", "raised"}
    /\ \E g \in GroupPool :
          /\ cluster' = g.cluster
          /\ s_index' = g.s_index
          /\ coincidences' \in CoincidenceTables(g.s_index)
    /\ reconstructions' \in {NoNode, StaleTable}
    /\ pc' = "new"
    /\ err' = ""
    /\ raisedIn' = ""
    /\ overwrite' = FALSE
    /\ offsets' = <<>>
    /\ angles' = <<>>
    /\ solverCalls' = <<>>
    /\ station_fits' = <<>>
    /\ before' = [reconstructions |-> NoNode, detector_offsets |-> NoNode,
                  ranOnce |-> FALSE]
    /\ ranOnce' = FALSE
    /\ UNCHANGED <<mode, fits, eventVars, columns>>

InitCoincidences ==
    /\ mode = "coincidences"
    /\ \E g \in GroupPool :
          /\ cluster = g.cluster
          /\ s_index = g.s_index
          /\ coincidences \in CoincidenceTables(g.s_index)
    /\ reconstructions \in {NoNode, StaleTable}
    /\ detector_offsets = NoNode
    /\ events = <<>>
    /\ offsets = <<>>
    /\ station_fits = <<>>
    /\ columns = {}

InitEvents ==
    /\ mode = "events"
    /\ events \in EventTables
    /\ reconstructions \in {NoNode, StaleTable}
    /\ detector_offsets \in {NoNode, StaleOffsets}
    /\ offsets = <<>>
    /\ cluster = <<>>
    /\ s_index = <<>>
    /\ coincidences = <<>>
    /\ station_fits = <<>>
    /\ columns = {}

InitCommon ==
    /\ pc = "new"
    /\ err = ""
    /\ raisedIn = ""
    /\ overwrite = FALSE
    /\ angles = <<>>
    /\ solverCalls = <<>>
    /\ fits = <<>>
    /\ before = [reconstructions |-> NoNode, detector_offsets |-> NoNode,
                 ranOnce |-> FALSE]
    /\ ranOnce = FALSE

Init == InitCommon /\ (InitEvents \/ InitCoincidences)

Next ==
    \/ \E ow \in BOOLEAN : Events_init(ow)
    \/ Events_reconstruct_and_store
    \/ Events_prepare_output
    \/ Events_determine_detector_timing_offsets
    \/ Events_store_offsets
    \/ Events_reconstruct_directions
    \/ Events_store_reconstructions
    \/ \E ow \in BOOLEAN : Coinc_init(ow)
    \/ Coinc_reconstruct_and_store
    \/ Coinc_prepare_output
    \/ Coinc_determine_station_timing_offsets
    \/ Coinc_reconstruct_directions
    \/ Coinc_store_reconstructions
    \/ Coinc_open

Spec == Init /\ [][Next]_vars

-----------------------------------------------------------------------------
(* Properties *)

\* prepare_output of the current call has been executed
PastPrepare == pc \notin {"new", "idle", "prepare_output"}

\* rows the current results call for
ExpectedRows ==
    IF mode = "events"
    THEN Events_StoredRows(events, angles)
    ELSE Coinc_StoredRows(coincidences, angles)

\* C1: once a reconstruct_and_store() call has returned on a destination, a
\* further call without overwrite raises RuntimeError from prepare_output;
\* with overwrite it does not raise, and when it has returned the table holds
\* exactly the rows of this run and detector_offsets exactly this run's
\* offsets.
C1_OverwriteSemantics ==
    before.ranOnce =>
        /\ (~overwrite /\ PastPrepare) =>
              /\ pc = "raised"
              /\ err = "RuntimeError"
              /\ raisedIn = "prepare_output"
        /\ overwrite => pc # "raised"
        /\ (overwrite /\ pc = "done") =>
              /\ reconstructions.exists
              /\ reconstructions.rows = ExpectedRows
              /\ mode = "events" =>
                    /\ detector_offsets.exists
                    /\ detector_offsets.rows = offsets

C1_Witness ==
    /\ before.ranOnce
    /\ overwrite
    /\ pc = "done"
    /\ mode = "events"
    /\ Len(reconstructions.rows) > 0
    /\ Len(reconstructions.rows) < Len(events)

\* C2: when ReconstructESDEvents.reconstruct_and_store() ends in the
\* RuntimeError of an existing output, both nodes of the station group are as
\* they were when the call was entered and no calibration has run.
C2_FailsBeforeAnyWork ==
    (mode = "events" /\ pc = "raised" /\ err = "RuntimeError") =>
        /\ reconstructions = before.reconstructions
        /\ detector_offsets = before.detector_offsets
        /\ fits = <<>>

\* number of detectors with a timing other than -1 and -999
ValidCount(event) == Cardinality({k \in 1..4 : event.t[k] \notin {-1, -999}})

RowIds == {reconstructions.rows[k].id : k \in 1..Len(reconstructions.rows)}

\* C3: after a completed ReconstructESDEvents run an event has a row iff its
\* zenith and azimuth are both non-NaN, the rows are in input order with one
\* row per such event, and an event with fewer than 3 valid timings has
\* (NaN, NaN) and no row.
C3_RowsAreTheReconstructedEvents ==
    (mode = "events" /\ pc = "done") =>
        LET rows == reconstructions.rows
            good == {i \in 1..Len(events) :
                        angles[i].theta # NaN /\ angles[i].phi # NaN}
        IN  /\ Len(angles) = Len(events)
            /\ \A i \in 1..Len(events) :
                  (events[i].event_id \in RowIds) <=> (i \in good)
            /\ \A k, l \in 1..Len(rows) : k < l => rows[k].id < rows[l].id
            /\ Len(rows) = Cardinality(good)
            /\ \A i \in 1..Len(events) :
                  ValidCount(events[i]) < 3 =>
                      /\ angles[i].theta = NaN
                      /\ angles[i].phi = NaN
                      /\ events[i].event_id \notin RowIds

C3_Witness ==
    /\ mode = "events"
    /\ pc = "done"
    /\ Len(reconstructions.rows) = 1
    /\ \E i \in 1..Len(events) :
          /\ ValidCount(events[i]) < 3
          /\ events[i].event_id \notin RowIds
    /\ \E i \in 1..Len(events) :
          /\ ValidCount(events[i]) = 3
          /\ events[i].event_id \in RowIds

\* C4: a solver error of one record is never raised to the caller of
\* reconstruct_and_store(): every record gets its result and the run goes on
\* to store them.
C4_SolveFailureNotRaised ==
    ~(pc = "raised" /\ err = "SolveFailure")

\* C5: the timing-offset calibration never ends the run with an exception,
\* and every offset whose Gaussian fit did not converge is 0.
C5_CalibrationNeverAborts ==
    /\ pc = "raised" =>
          raisedIn \notin {"determine_detector_timing_offsets",
                           "determine_station_timing_offsets"}
    /\ \A k \in 1..Len(fits) :
          ~fits[k].ok => offsets[<<1, 3, 4>>[k]] = 0

\* C6: a ReconstructESDEvents run on a fresh destination whose events all have
\* fewer than 3 valid timings, an empty table included, does not raise, and
\* when it has returned the reconstructions table exists and is empty.
C6_NothingReconstructableIsNoError ==
    ( /\ mode = "events"
      /\ ~before.reconstructions.exists
      /\ ~before.detector_offsets.exists
      /\ \A i \in 1..Len(events) : ValidCount(events[i]) < 3 ) =>
        /\ pc # "raised"
        /\ pc = "done" => reconstructions = [NoNode EXCEPT !.exists = TRUE]

ValidIds(event) == {id \in 0..3 : event.t[id + 1] \notin {-1, -999}}

CallsFor(event) ==
    {k \in 1..Len(solverCalls) : solverCalls[k].id = event.event_id}

\* C7: when reconstruct_directions of ReconstructESDEvents has returned, an
\* event with 3 valid timings has made exactly one solver call, to Direct,
\* with its valid detector ids and the calibrated offsets; one with 4 exactly
\* one call, to Fit; any other none, with result (NaN, NaN); and the ids
\* returned are the valid detector ids.  No call is ever made otherwise.
C7_EventDispatch ==
    mode = "events" =>
        /\ \A k \in 1..Len(solverCalls) :
              \E i \in 1..Len(events) :
                 /\ events[i].event_id = solverCalls[k].id
                 /\ solverCalls[k].solver = "direct" => ValidCount(events[i]) = 3
                 /\ solverCalls[k].solver = "fit" => ValidCount(events[i]) = 4
        /\ pc \in {"store_reconstructions", "done"} =>
              \A i \in 1..Len(events) :
                 LET v == ValidIds(events[i])
                     calls == CallsFor(events[i])
                 IN  /\ Range(angles[i].ids) = v
                     /\ Len(angles[i].ids) = Cardinality(v)
                     /\ Cardinality(v) = 3 =>
                           /\ Cardinality(calls) = 1
                           /\ \A k \in calls :
                                 /\ solverCalls[k].solver = "direct"
                                 /\ Range(solverCalls[k].ids) = v
                                 /\ Len(solverCalls[k].ids) = 3
                                 /\ solverCalls[k].offsets = offsets
                                 /\ solverCalls[k].offsets =
                                       <<FittedOffset(fits[1]), 0,
                                         FittedOffset(fits[2]),
                                         FittedOffset(fits[3])>>
                     /\ Cardinality(v) = 4 =>
                           /\ Cardinality(calls) = 1
                           /\ \A k \in calls :
                                 /\ solverCalls[k].solver = "fit"
                                 /\ solverCalls[k].offsets = offsets
                     /\ Cardinality(v) \notin {3, 4} =>
                           /\ calls = {}
                           /\ angles[i].theta = NaN
                           /\ angles[i].phi = NaN

C7_Witness ==
    /\ mode = "events"
    /\ pc = "store_reconstructions"
    /\ \E k \in 1..Len(solverCalls) : solverCalls[k].solver = "direct"
    /\ \E k \in 1..Len(solverCalls) : solverCalls[k].solver = "fit"
    /\ offsets # <<0, 0, 0, 0>>

\* C8: a coincidence goes to the Direct solver only with exactly 3 distinct
\* stations and to the Fit solver only with 4 or more; with fewer than 3
\* distinct stations no solver is called for it.
C8_CoincidenceDispatchByStations ==
    mode = "coincidences" =>
        \A k \in 1..Len(solverCalls) :
           \E i \in 1..Len(coincidences) :
              LET stations == Range(StationNumbers(coincidences[i].events))
              IN  /\ coincidences[i].id = solverCalls[k].id
                  /\ solverCalls[k].solver = "direct" =>
                        Cardinality(stations) = 3
                  /\ solverCalls[k].solver = "fit" =>
                        Cardinality(stations) >= 4

\* C9: the dt of a detector in the detector-offset calibration are the
\* differences t_other - t2 of exactly the events whose t_other and t2 both
\* differ from -1 and -999, in table order.
C9_CalibrationUsesSentinelRule ==
    (mode = "events" /\ fits # <<>>) =>
        \A k \in 1..3 :
           LET det == <<1, 3, 4>>[k]
               both == SelectSeq([i \in 1..Len(events) |-> i],
                          LAMBDA i : /\ events[i].t[det] \notin {-1, -999}
                                     /\ events[i].t[2] \notin {-1, -999})
           IN  fits[k].dt = [j \in 1..Len(both) |->
                               events[both[j]].t[det] - events[both[j]].t[2]]

\* C10: the detector offsets are [offset(det1), 0, offset(det3), offset(det4)]
\* wherever they are held, and when determine_station_timing_offsets has
\* returned self.offsets has one entry for each station of the cluster but
\* the reference station, which is the station's detector offsets plus its
\* one fitted station offset.
C10_OffsetShapes ==
    /\ (mode = "events" /\ pc # "new") =>
          /\ Len(offsets) = 4
          /\ offsets[2] = 0
          /\ fits # <<>> =>
                offsets = <<FittedOffset(fits[1]), 0, FittedOffset(fits[2]),
                            FittedOffset(fits[3])>>
    /\ (mode = "events" /\ detector_offsets.exists) =>
          /\ Len(detector_offsets.rows) = 4
          /\ detector_offsets.rows[2] = 0
    /\ (mode = "coincidences" /\ station_fits # <<>>) =>
          \A s \in DOMAIN station_fits.detector_offsets :
             LET f == station_fits.detector_fits[s]
             IN  station_fits.detector_offsets[s] =
                    <<FittedOffset(f[1]), 0, FittedOffset(f[2]),
                      FittedOffset(f[3])>>
    /\ ( /\ mode = "coincidences"
         /\ pc \in {"reconstruct_directions", "store_reconstructions", "done"} ) =>
          /\ DOMAIN offsets = Range(cluster) \ {RefStation}
          /\ \A s \in DOMAIN offsets :
                /\ Len(offsets[s]) = 4
                /\ \A i \in 1..4 :
                      offsets[s][i] = station_fits.detector_offsets[s][i]
                                      + FittedOffset(station_fits.fitted[s])

C10_Witness ==
    /\ mode = "coincidences"
    /\ pc = "reconstruct_directions"
    /\ \E s \in DOMAIN offsets :
          /\ station_fits.fitted[s].ok
          /\ station_fits.fitted[s].mean # 0
          /\ station_fits.detector_offsets[s][1] # 0
          /\ offsets[s][2] # 0

\* C11: the table prepare_output of ReconstructESDCoincidences has created in
\* the current call has the s<number> columns of exactly the stations of the
\* reconstructor's own cluster, whatever reconstructors ran before it in the
\* process.
C11_StationColumnsAreOwnCluster ==
    ( /\ mode = "coincidences"
      /\ PastPrepare
      /\ ~(pc = "raised" /\ raisedIn = "prepare_output") ) =>
        reconstructions.s_columns = Range(cluster)

====
